---- MODULE Spec2Model ----
(***************************************************************************)
(* Places API: the query service (app/services/places_service.py) and the  *)
(* three HTTP endpoints that wrap it (app/main.py).                        *)
(*                                                                         *)
(* The places table is a function from row id to row.  A row carries the   *)
(* columns category, city, the point (lng, lat) and the properties blob.   *)
(* The blob is modelled by the text that the SQL operator ->> yields for   *)
(* each key the service reads (NULL when the key is absent or JSON null),  *)
(* plus ptype, the Python type psycopg hands to normalize_place_from_db.   *)
(***************************************************************************)
EXTENDS Integers, Sequences, FiniteSets, TLC

VARIABLES places, dataFile, req, resp, prev, load, store, stmt

vars == <<places, dataFile, req, resp, prev, load, store, stmt>>

\* Largest number of rows in the places table.
MaxRows == 2
\* Largest number of records in a source file of the loader.
MaxBatch == 2

\* SQL NULL / Python None.
NULL == "<null>"
None == "<none>"
\* An absent bbox parameter (bbox strings are sequences of characters).
NoBbox == <<None>>

Range(s) == {s[i] : i \in 1..Len(s)}

-----------------------------------------------------------------------------
(* PostgreSQL text casts, as used on properties->>'key'.                   *)

\* Result of a cast: SQL NULL, a value, or a raised data error.
CastNull == [k |-> "null", v |-> 0]
CastErr == [k |-> "err", v |-> 0]
CastVal(n) == [k |-> "val", v |-> n]

\* text -> integer for the texts of the model; any other text is invalid input.
IntTexts == {"-1", "0", "1", "2", "3"}
IntOfText(t) ==
  CASE t = "-1" -> 0 - 1
    [] t = "0" -> 0
    [] t = "1" -> 1
    [] t = "2" -> 2
    [] t = "3" -> 3

\* (properties->>'k')::int
CastInt(t) ==
  IF t = NULL THEN CastNull
  ELSE IF t \in IntTexts THEN CastVal(IntOfText(t))
  ELSE CastErr

TrueTexts == {"true", "t", "yes", "y", "on", "1"}
FalseTexts == {"false", "f", "no", "n", "off", "0"}

\* (properties->>'k')::boolean, 1 for true and 0 for false
CastBool(t) ==
  IF t = NULL THEN CastNull
  ELSE IF t \in TrueTexts THEN CastVal(1)
  ELSE IF t \in FalseTexts THEN CastVal(0)
  ELSE CastErr

-----------------------------------------------------------------------------
(* SQL three-valued logic with evaluation errors: "T", "F", "N" (unknown), *)
(* "E" (the evaluation raised).                                            *)

TV(b) == IF b THEN "T" ELSE "F"

\* cast = true
EqTrue(c) ==
  IF c.k = "err" THEN "E" ELSE IF c.k = "null" THEN "N" ELSE TV(c.v = 1)

\* cast > 0
GtZero(c) ==
  IF c.k = "err" THEN "E" ELSE IF c.k = "null" THEN "N" ELSE TV(c.v > 0)

\* cast = 0
EqZero(c) ==
  IF c.k = "err" THEN "E" ELSE IF c.k = "null" THEN "N" ELSE TV(c.v = 0)

\* OR over the terms ts, evaluated in the order ord with a stop at the first
\* true term; a term that raises before that aborts the statement.
RECURSIVE OrFrom(_, _, _, _)
OrFrom(ts, ord, i, sawNull) ==
  IF i > Len(ord) THEN (IF sawNull THEN "N" ELSE "F")
  ELSE LET t == ts[ord[i]] IN
       IF t = "E" THEN "E"
       ELSE IF t = "T" THEN "T"
       ELSE OrFrom(ts, ord, i + 1, sawNull \/ t = "N")

SqlOr(ts, ord) == OrFrom(ts, ord, 1, FALSE)

SqlNot(t) ==
  CASE t = "T" -> "F"
    [] t = "F" -> "T"
    [] OTHER -> t

-----------------------------------------------------------------------------
(* Rows of the places table.                                               *)

\* The blob of a row none of whose keys is present.
NoProps ==
  [data_status |-> NULL, diaper_table_count |-> NULL, has_parking |-> NULL,
   parking |-> NULL, parking_count |-> NULL, district |-> NULL,
   city_name |-> NULL]

\* ptype: what the driver returns for the properties column: "dict" (a JSON
\* object), "none" (NULL), "str_json" / "str_bad" (a string that is / is not
\* itself JSON text).  Only a JSON object has keys for ->> to read.
MkRow(cat, cty, x, y, pt, pr) ==
  [category |-> cat, city |-> cty, lng |-> x, lat |-> y, ptype |-> pt,
   p |-> IF pt = "dict" THEN pr ELSE NoProps]

\* The rows the table is populated from.  City codes and district names are
\* listed in the collation order of ORDER BY.
CityCodes == <<"a", "b">>
DistrictNames == <<"", "d1", "d2">>

Fixtures ==
  << MkRow("park", "a", 1, 1, "dict", NoProps),
     MkRow("park", "a", 1, 1, "dict", [NoProps EXCEPT !.parking_count = "2"]),
     MkRow("park", "a", 0, 1, "dict", [NoProps EXCEPT !.has_parking = "true"]),
     MkRow("park", "a", 1, 1, "dict",
           [NoProps EXCEPT !.has_parking = "true", !.parking = "maybe"]),
     MkRow("park", "a", 1, 1, "dict",
           [NoProps EXCEPT !.diaper_table_count = "3", !.parking_count = "0",
                           !.city_name = "Y", !.district = "d2"]),
     MkRow("park", "b", 3, 3, "dict",
           [NoProps EXCEPT !.diaper_table_count = "0", !.data_status = "current"]),
     MkRow("park", "a", 1, 1, "dict",
           [NoProps EXCEPT !.diaper_table_count = "many"]),
     MkRow("park", "a", 1, 1, "dict",
           [NoProps EXCEPT !.data_status = "outdated", !.city_name = "X",
                           !.district = "d1", !.diaper_table_count = "3",
                           !.parking_count = "2"]),
     MkRow("toilet", "b", 1, 1, "dict",
           [NoProps EXCEPT !.city_name = "", !.district = "",
                           !.has_parking = "false"]),
     MkRow("park", "b", 1, 1, "str_bad", NoProps) >>

RowIds == DOMAIN places

-----------------------------------------------------------------------------
(* Requests.                                                               *)

Categories == {<<>>, <<"park">>, <<"toilet", "park">>}
Cities == {None, "", "a", "b"}
Flags == {None, "0", "1"}

\* bbox strings: absent, "", "1,2,3", "a,b,c,d", "0,0,2,2".
BboxInputs ==
  { NoBbox,
    <<>>,
    <<"1", ",", "2", ",", "3">>,
    <<"a", ",", "b", ",", "c", ",", "d">>,
    <<"0", ",", "0", ",", "2", ",", "2">> }

\* Python truthiness of an optional string / list parameter.
Truthy(v) == v # None /\ v # ""
TruthyBbox(b) == b # NoBbox /\ Len(b) > 0

-----------------------------------------------------------------------------
(* bbox parsing: str.split(",") and float().                               *)

RECURSIVE SplitFrom(_, _, _, _)
SplitFrom(s, i, cur, acc) ==
  IF i > Len(s) THEN Append(acc, cur)
  ELSE IF s[i] = "," THEN SplitFrom(s, i + 1, <<>>, Append(acc, cur))
  ELSE SplitFrom(s, i + 1, Append(cur, s[i]), acc)

Split(s) == SplitFrom(s, 1, <<>>, <<>>)

Digits == {"0", "1", "2", "3"}
DigitVal(c) == IntOfText(c)

\* float(tok) for tokens over digits and letters: a non-empty run of digits
\* is its decimal value, anything else raises ValueError.
IsFloat(tok) == Len(tok) > 0 /\ \A i \in 1..Len(tok) : tok[i] \in Digits

RECURSIVE FloatFrom(_, _, _)
FloatFrom(tok, i, acc) ==
  IF i > Len(tok) THEN acc ELSE FloatFrom(tok, i + 1, 10 * acc + DigitVal(tok[i]))

Float(tok) == FloatFrom(tok, 1, 0)

-----------------------------------------------------------------------------
(* The predicate builder.  A statement text is the sequence of its pieces, *)
(* the placeholder "%s" being a piece of its own; a parameter is its       *)
(* Python type with its string or its number.                              *)

PText(v) == [t |-> "str", s |-> v, n |-> 0]
PFloat(x) == [t |-> "float", s |-> "", n |-> x]

\* sep.join(texts), for texts a sequence of statement texts
RECURSIVE Join(_, _, _)
Join(texts, sep, i) ==
  IF i > Len(texts) THEN <<>>
  ELSE IF i = Len(texts) THEN texts[i]
  ELSE texts[i] \o <<sep>> \o Join(texts, sep, i + 1)

\* The text of a condition of the kind, for a list of n categories.
ConditionText(kind, n) ==
  CASE kind = "fresh" ->
         <<"(properties->>'data_status' IS NULL OR properties->>'data_status' != 'outdated')">>
    [] kind = "category" ->
         <<"category IN (">> \o Join([i \in 1..n |-> <<"%s">>], ",", 1) \o <<")">>
    [] kind = "city" -> <<"city = ", "%s">>
    [] kind = "bbox" ->
         <<"ST_Within(geom, ST_MakeEnvelope(", "%s", ", ", "%s", ", ", "%s", ", ",
           "%s", ", 4326))">>
    [] kind = "diaper1" -> <<"(properties->>'diaper_table_count')::int > 0">>
    [] kind = "diaper0" ->
         <<"((properties->>'diaper_table_count')::int = 0 OR properties->>'diaper_table_count' IS NULL)">>
    [] kind = "parking1" ->
         <<"((properties->>'has_parking')::boolean = true OR (properties->>'parking')::boolean = true OR (properties->>'parking_count')::int > 0)">>
    [] kind = "parking0" ->
         <<"NOT ((properties->>'has_parking')::boolean = true OR (properties->>'parking')::boolean = true OR (properties->>'parking_count')::int > 0)">>

\* base_query, then " AND " + " AND ".join(conditions) when there are any.
Assemble(base, conds, n) ==
  base \o (IF Len(conds) > 0
           THEN <<" AND ">> \o Join([k \in 1..Len(conds) |-> ConditionText(conds[k], n)],
                                    " AND ", 1)
           ELSE <<>>)

\* The parameters category adds: params.extend(category).
CategoryParams(cats) == [i \in 1..Len(cats) |-> PText(cats[i])]

\* build_places_query: the conditions in the order they are appended, the
\* parsed box, the statement text and its parameter list, and the exception
\* raised ("none" when it returns).
BuildPlacesQuery(r) ==
  LET c1 == IF ~r.include_outdated THEN <<"fresh">> ELSE <<>>
      c2 == IF Len(r.category) > 0 THEN <<"category">> ELSE <<>>
      c3 == IF Truthy(r.city) THEN <<"city">> ELSE <<>>
      parts == Split(r.bbox)
      badBox == TruthyBbox(r.bbox)
                /\ ~(Len(parts) = 4 /\ \A i \in 1..4 : IsFloat(parts[i]))
      c4 == IF TruthyBbox(r.bbox) /\ ~badBox THEN <<"bbox">> ELSE <<>>
      box == IF TruthyBbox(r.bbox) /\ ~badBox
             THEN [i \in 1..4 |-> Float(parts[i])] ELSE <<>>
      c5 == IF r.has_diaper_table = "1" THEN <<"diaper1">>
            ELSE IF r.has_diaper_table = "0" THEN <<"diaper0">> ELSE <<>>
      c6 == IF r.has_parking = "1" THEN <<"parking1">>
            ELSE IF r.has_parking = "0" THEN <<"parking0">> ELSE <<>>
  IN IF badBox
     THEN [exc |-> "ValueError", conds |-> <<>>, box |-> <<>>, carried |-> r.bbox,
           sql |-> <<>>, params |-> <<>>]
     ELSE [exc |-> "none", conds |-> c1 \o c2 \o c3 \o c4 \o c5 \o c6,
           box |-> box, carried |-> NoBbox,
           sql |-> Assemble(<<"SELECT id, name, address, category, city, ST_Y(geom) AS lat, ST_X(geom) AS lng, properties FROM places WHERE 1=1">>,
                            c1 \o c2 \o c3 \o c4 \o c5 \o c6, Len(r.category)),
           params |-> CategoryParams(r.category)
                      \o (IF Len(c3) > 0 THEN <<PText(r.city)>> ELSE <<>>)
                      \o [i \in 1..Len(box) |-> PFloat(box[i])]]

\* The statement of get_cities and its parameter list.
CitiesStatement(r) ==
  LET c1 == IF ~r.include_outdated THEN <<"fresh">> ELSE <<>>
      c2 == IF Len(r.category) > 0 THEN <<"category">> ELSE <<>>
  IN [exc |-> "none",
      sql |-> Assemble(<<"SELECT city, COUNT(*) as count FROM places WHERE 1=1">>,
                       c1 \o c2, Len(r.category))
              \o <<" GROUP BY city ORDER BY city">>,
      params |-> CategoryParams(r.category)]

\* Mutant of DistrictsStatement: city is appended after the categories.
DistrictsStatementCityLast(r) ==
  LET c1 == IF ~r.include_outdated THEN <<"fresh">> ELSE <<>>
      c2 == IF Len(r.category) > 0 THEN <<"category">> ELSE <<>>
  IN IF ~Truthy(r.city) THEN [exc |-> "ValueError", sql |-> <<>>, params |-> <<>>]
     ELSE [exc |-> "none",
           sql |-> Assemble(<<"SELECT properties->>'district' as district, COUNT(*) as count FROM places WHERE ",
                              "city = ", "%s">>, c1 \o c2, Len(r.category))
                   \o <<" AND properties->>'district' IS NOT NULL">>
                   \o <<" GROUP BY properties->>'district' ORDER BY properties->>'district'">>,
           params |-> CategoryParams(r.category) \o <<PText(r.city)>>]

\* The statement of get_districts and its parameter list.
DistrictsStatement(r) ==
  LET c1 == IF ~r.include_outdated THEN <<"fresh">> ELSE <<>>
      c2 == IF Len(r.category) > 0 THEN <<"category">> ELSE <<>>
  IN IF ~Truthy(r.city) THEN [exc |-> "ValueError", sql |-> <<>>, params |-> <<>>]
     ELSE [exc |-> "none",
           sql |-> Assemble(<<"SELECT properties->>'district' as district, COUNT(*) as count FROM places WHERE ",
                              "city = ", "%s">>, c1 \o c2, Len(r.category))
                   \o <<" AND properties->>'district' IS NOT NULL">>
                   \o <<" GROUP BY properties->>'district' ORDER BY properties->>'district'">>,
           params |-> <<PText(r.city)>> \o CategoryParams(r.category)]

-----------------------------------------------------------------------------
(* Evaluation of one condition on one row.                                 *)

\* Mutant of FreshCond: the IS NULL alternative is left out, so a row without
\* data_status compares unknown.
FreshCondNoNull(row) ==
  IF row.p.data_status = NULL THEN "N" ELSE TV(row.p.data_status # "outdated")

\* properties->>'data_status' IS NULL OR properties->>'data_status' != 'outdated'
FreshCond(row) ==
  IF row.p.data_status = NULL THEN "T" ELSE TV(row.p.data_status # "outdated")

\* category IN (%s, ...)
CategoryCond(row, cats) == TV(row.category \in Range(cats))

\* city = %s
CityCond(row, cty) == TV(row.city = cty)

\* ST_Within(geom, ST_MakeEnvelope(minLng, minLat, maxLng, maxLat, 4326)): the
\* point lies in the interior of the rectangle.
StWithin(row, box) ==
  TV(box[1] < row.lng /\ row.lng < box[3] /\ box[2] < row.lat /\ row.lat < box[4])

\* (properties->>'diaper_table_count')::int > 0
DiaperPresent(row) == GtZero(CastInt(row.p.diaper_table_count))

\* (...)::int = 0 OR properties->>'diaper_table_count' IS NULL
DiaperAbsent(row) ==
  SqlOr(<<EqZero(CastInt(row.p.diaper_table_count)),
          TV(row.p.diaper_table_count = NULL)>>, <<1, 2>>)

\* has_parking::boolean = true OR parking::boolean = true OR parking_count::int > 0
ParkingPresent(row, ord) ==
  SqlOr(<<EqTrue(CastBool(row.p.has_parking)),
          EqTrue(CastBool(row.p.parking)),
          GtZero(CastInt(row.p.parking_count))>>, ord)

\* NOT (the same disjunction)
ParkingAbsent(row, ord) == SqlNot(ParkingPresent(row, ord))

CondValue(kind, row, r, box, ord) ==
  CASE kind = "fresh" -> FreshCond(row)
    [] kind = "category" -> CategoryCond(row, r.category)
    [] kind = "city" -> CityCond(row, r.city)
    [] kind = "bbox" -> StWithin(row, box)
    [] kind = "diaper1" -> DiaperPresent(row)
    [] kind = "diaper0" -> DiaperAbsent(row)
    [] kind = "parking1" -> ParkingPresent(row, ord)
    [] kind = "parking0" -> ParkingAbsent(row, ord)

-----------------------------------------------------------------------------
(* Execution of the WHERE clause.  SQL fixes no evaluation order for the   *)
(* ANDed conditions nor for the terms of an OR, so a cast that raises on a *)
(* row may or may not be reached.  A plan is the order the executor uses:  *)
(* top orders the conditions that cannot raise ("safe"), the diaper        *)
(* condition and the parking condition; por orders the parking terms.      *)

Perms3 == {<<1, 2, 3>>, <<1, 3, 2>>, <<2, 1, 3>>, <<2, 3, 1>>, <<3, 1, 2>>, <<3, 2, 1>>}
Blocks == <<"safe", "diaper", "parking">>

Block(kind) ==
  IF kind \in {"diaper1", "diaper0"} THEN "diaper"
  ELSE IF kind \in {"parking1", "parking0"} THEN "parking"
  ELSE "safe"

\* A cast of the condition raises on the row.
Raises(kind, row) ==
  CASE Block(kind) = "diaper" -> CastInt(row.p.diaper_table_count).k = "err"
    [] Block(kind) = "parking" -> \/ CastBool(row.p.has_parking).k = "err"
                                  \/ CastBool(row.p.parking).k = "err"
                                  \/ CastInt(row.p.parking_count).k = "err"
    [] OTHER -> FALSE

\* The plans that can differ on the conditions conds: every order of the
\* blocks that occur in conds, and every order of the parking terms when the
\* parking condition occurs.  When no cast raises on any row of the table,
\* every order gives the same rows and one plan stands for all.
Plans(conds) ==
  LET present == {Block(conds[i]) : i \in 1..Len(conds)}
      tops == IF Cardinality(present) = 3 THEN Perms3
              ELSE IF Cardinality(present) = 2 THEN {<<1, 2, 3>>, <<3, 2, 1>>}
              ELSE {<<1, 2, 3>>}
      pors == IF "parking" \in present THEN Perms3 ELSE {<<1, 2, 3>>}
  IN IF \E i \in RowIds, k \in 1..Len(conds) : Raises(conds[k], places[i])
     THEN [top : tops, por : pors]
     ELSE {[top |-> <<1, 2, 3>>, por |-> <<1, 2, 3>>]}

PlanOrder(conds, plan) ==
  LET Sel(b) == SelectSeq(conds, LAMBDA k : Block(k) = b)
  IN Sel(Blocks[plan.top[1]]) \o Sel(Blocks[plan.top[2]]) \o Sel(Blocks[plan.top[3]])

\* One row against the conditions cs in order: "keep" when all are true,
\* "skip" at the first false or unknown one, "error" when one raises first.
RECURSIVE RowOutcome(_, _, _, _, _, _)
RowOutcome(row, cs, i, r, box, ord) ==
  IF i > Len(cs) THEN "keep"
  ELSE LET v == CondValue(cs[i], row, r, box, ord) IN
       IF v = "E" THEN "error"
       ELSE IF v = "T" THEN RowOutcome(row, cs, i + 1, r, box, ord)
       ELSE "skip"

-----------------------------------------------------------------------------
(* The service.  A service result is the exception raised ("none" when it  *)
(* returns), the payload, the number of statements executed, and the       *)
(* numbers of store connections opened and closed.                         *)

Result(e, it, cs, ds, n, b) ==
  [exc |-> e, items |-> it, cities |-> cs, districts |-> ds, queries |-> n,
   carried |-> b, acquired |-> 0, released |-> 0]

\* The store: "up", "down" (connecting fails), or "fail1" / "fail2" (the
\* first / second statement on a connection fails).
StoreModes == {"up", "down", "fail1", "fail2"}

\* cur.execute on the statements of out: the statement at which the store
\* fails raises OperationalError and ends the body.
Execute(out) ==
  IF store = "fail1" /\ out.queries >= 1
  THEN Result("OperationalError", {}, <<>>, <<>>, 1, NoBbox)
  ELSE IF store = "fail2" /\ out.queries >= 2
  THEN Result("OperationalError", {}, <<>>, <<>>, 2, NoBbox)
  ELSE out

\* Mutant of Scope: the connection is closed only when the body returns.
ScopeCloseOnReturn(out) ==
  [out EXCEPT !.acquired = @ + 1,
              !.released = IF out.exc = "none" THEN @ + 1 ELSE @]

\* with psycopg.connect(...) as conn: the connection is opened on entry and
\* closed when the block is left, by return or by exception.
Scope(out) == [out EXCEPT !.acquired = @ + 1, !.released = @ + 1]

\* The with block around the statements of out; psycopg.connect raises
\* when the store is down and no connection exists then.
Connect(out) ==
  IF store = "down" THEN Result("OperationalError", {}, <<>>, <<>>, 0, NoBbox)
  ELSE Scope(Execute(out))

\* normalize_place_from_db raises when properties is a string json.loads rejects.
NormalizeFails(row) == row.ptype = "str_bad"

\* get_places, from the built query q on, under one plan.
GetPlaces(r, q, plan) ==
  LET cs == PlanOrder(q.conds, plan)
      out == [i \in RowIds |-> RowOutcome(places[i], cs, 1, r, q.box, plan.por)]
      rows == {i \in RowIds : out[i] = "keep"}
  IN IF q.exc # "none" THEN Result(q.exc, {}, <<>>, <<>>, 0, q.carried)
     ELSE Connect(IF \E i \in RowIds : out[i] = "error"
                  THEN Result("DataError", {}, <<>>, <<>>, 1, NoBbox)
                  ELSE IF \E i \in rows : NormalizeFails(places[i])
                  THEN Result("JSONDecodeError", {}, <<>>, <<>>, 1, NoBbox)
                  ELSE Result("none", rows, <<>>, <<>>, 1, NoBbox))

\* The WHERE clause shared by the two aggregate statements.
AggMatches(row, cats, inc) ==
  /\ (~inc => FreshCond(row) = "T")
  /\ (Len(cats) > 0 => CategoryCond(row, cats) = "T")

\* Rows the name lookup of get_cities can return for a city code.
NameRows(c) == {i \in RowIds : places[i].city = c /\ places[i].p.city_name # NULL}

\* LIMIT 1 without ORDER BY: any one of the rows; 0 when there is none.
Picks ==
  {f \in [Range(CityCodes) -> 0..Cardinality(RowIds)] :
     \A c \in Range(CityCodes) :
       IF NameRows(c) = {} THEN f[c] = 0 ELSE f[c] \in NameRows(c)}

\* Mutant of CityName: the looked-up name is never used.
CityNameCodeOnly(c, pick) == c

CityName(c, pick) ==
  IF pick[c] = 0 THEN c
  ELSE LET n == places[pick[c]].p.city_name IN IF n # "" THEN n ELSE c

\* get_cities, with pick the row each name lookup returns.
GetCities(r, pick) ==
  LET Cnt(c) == Cardinality({i \in RowIds : places[i].city = c
                               /\ AggMatches(places[i], r.category, r.include_outdated)})
      groups == SelectSeq(CityCodes, LAMBDA c : Cnt(c) > 0)
      cities == [k \in 1..Len(groups) |->
                   [code |-> groups[k], name |-> CityName(groups[k], pick),
                    count |-> Cnt(groups[k])]]
  IN Connect(Result("none", {}, cities, <<>>, 1 + Len(groups), NoBbox))

\* Mutant of GetDistricts: the check of city is left out.
GetDistrictsNoCityCheck(r) ==
  LET Cnt(d) == Cardinality({i \in RowIds : places[i].city = r.city
                               /\ AggMatches(places[i], r.category, r.include_outdated)
                               /\ places[i].p.district # NULL
                               /\ places[i].p.district = d})
      groups == SelectSeq(DistrictNames, LAMBDA d : Cnt(d) > 0)
      named == SelectSeq(groups, LAMBDA d : d # "")
      districts == [k \in 1..Len(named) |-> [name |-> named[k], count |-> Cnt(named[k])]]
  IN Connect(Result("none", {}, <<>>, districts, 1, NoBbox))

\* Mutant of GetDistricts: a group with an empty name is kept.
GetDistrictsKeepEmpty(r) ==
  LET Cnt(d) == Cardinality({i \in RowIds : places[i].city = r.city
                               /\ AggMatches(places[i], r.category, r.include_outdated)
                               /\ places[i].p.district # NULL
                               /\ places[i].p.district = d})
      groups == SelectSeq(DistrictNames, LAMBDA d : Cnt(d) > 0)
      districts == [k \in 1..Len(groups) |-> [name |-> groups[k], count |-> Cnt(groups[k])]]
  IN IF ~Truthy(r.city) THEN Result("ValueError", {}, <<>>, <<>>, 0, NoBbox)
     ELSE Connect(Result("none", {}, <<>>, districts, 1, NoBbox))

\* get_districts
GetDistricts(r) ==
  LET Cnt(d) == Cardinality({i \in RowIds : places[i].city = r.city
                               /\ AggMatches(places[i], r.category, r.include_outdated)
                               /\ places[i].p.district # NULL
                               /\ places[i].p.district = d})
      groups == SelectSeq(DistrictNames, LAMBDA d : Cnt(d) > 0)
      named == SelectSeq(groups, LAMBDA d : d # "")
      districts == [k \in 1..Len(named) |-> [name |-> named[k], count |-> Cnt(named[k])]]
  IN IF ~Truthy(r.city) THEN Result("ValueError", {}, <<>>, <<>>, 0, NoBbox)
     ELSE Connect(Result("none", {}, <<>>, districts, 1, NoBbox))

-----------------------------------------------------------------------------
(* The endpoints.  Each runs its body in a try block and maps what the     *)
(* body raises through its except clauses, first match first.              *)

\* Base class of each exception class that can be raised here.
Parent(k) ==
  CASE k = "JSONDecodeError" -> "ValueError"
    [] k = "FileNotFoundError" -> "OSError"
    [] OTHER -> "Exception"

RECURSIVE IsInstance(_, _)
IsInstance(k, cls) ==
  k = cls \/ (k # "Exception" /\ IsInstance(Parent(k), cls))

Clause(c, s, e) == [cls |-> c, status |-> s, error |-> e]

PlacesHandlers ==
  << Clause("ValueError", 400, "bad_bbox"),
     Clause("FileNotFoundError", 404, "missing_data"),
     Clause("JSONDecodeError", 500, "bad_json"),
     Clause("OSError", 500, "io_error"),
     Clause("Exception", 500, "internal_error") >>

CitiesHandlers ==
  << Clause("FileNotFoundError", 404, "missing_data"),
     Clause("JSONDecodeError", 500, "bad_json"),
     Clause("OSError", 500, "io_error"),
     Clause("Exception", 500, "internal_error") >>

DistrictsHandlers ==
  << Clause("ValueError", 400, "invalid_parameter"),
     Clause("FileNotFoundError", 404, "missing_data"),
     Clause("JSONDecodeError", 500, "bad_json"),
     Clause("OSError", 500, "io_error"),
     Clause("Exception", 500, "internal_error") >>

\* The first except clause that matches an exception of class k.
Catch(handlers, k) ==
  handlers[CHOOSE i \in 1..Len(handlers) :
             /\ IsInstance(k, handlers[i].cls)
             /\ \A j \in 1..(i - 1) : ~IsInstance(k, handlers[j].cls)]

\* The body of the try block: the data file check, then the service call svc.
\* When the file is missing the body raises HTTPException(404, missing_data)
\* inside the try block.
TryBody(svc) ==
  IF ~dataFile THEN Result("HTTPException", {}, <<>>, <<>>, 0, NoBbox) ELSE svc

Response(st, er, called, out) ==
  [status |-> st, error |-> er, called |-> called, exc |-> out.exc,
   items |-> out.items, cities |-> out.cities, districts |-> out.districts,
   queries |-> out.queries, carried |-> out.carried,
   acquired |-> out.acquired, released |-> out.released]

Endpoint(handlers, svc) ==
  LET out == TryBody(svc) IN
  IF out.exc = "none" THEN Response(200, "", dataFile, out)
  ELSE LET h == Catch(handlers, out.exc)
       IN Response(h.status, h.error, dataFile, out)

\* Every response /api/places can give to request r.
PlacesResponses(r) ==
  LET q == BuildPlacesQuery(r)
  IN {Endpoint(PlacesHandlers, GetPlaces(r, q, plan)) : plan \in Plans(q.conds)}

\* Every response /api/cities can give to request r.
CitiesResponses(r) == {Endpoint(CitiesHandlers, GetCities(r, pick)) : pick \in Picks}

\* /api/districts: city is a required query parameter; without it the
\* framework answers 422 and the endpoint body does not run.
DistrictsResponses(r) ==
  IF r.city = None
  THEN {Response(422, "missing", FALSE, Result("none", {}, <<>>, <<>>, 0, NoBbox))}
  ELSE {Endpoint(DistrictsHandlers, GetDistricts(r))}

Responses(r) ==
  CASE r.op = "places" -> PlacesResponses(r)
    [] r.op = "cities" -> CitiesResponses(r)
    [] r.op = "districts" -> DistrictsResponses(r)

-----------------------------------------------------------------------------
(* State machine.  req / resp are the call in progress and its response,   *)
(* prev the response to the same call made just before it.                 *)

Request(op, cat, cty, bb, dia, park, inc) ==
  [op |-> op, category |-> cat, city |-> cty, bbox |-> bb,
   has_diaper_table |-> dia, has_parking |-> park, include_outdated |-> inc]

NoReq == Request("none", <<>>, None, NoBbox, None, None, FALSE)
NoResp == Response(0, "", FALSE, Result("none", {}, <<>>, <<>>, 0, NoBbox))

\* No statement has been built.
NoStmt == [exc |-> "unbuilt", sql |-> <<>>, params |-> <<>>]

\* No loader run has been made.
NoLoad == [ran |-> FALSE, raw |-> <<>>, dry |-> FALSE, exc |-> "none", before |-> <<>>]

\* Tables of at most n rows; ids are assigned in insertion order.
Tables(n) ==
  UNION {{[i \in 1..m |-> Fixtures[ix[i]]] :
            ix \in {f \in [1..m -> 1..Len(Fixtures)] :
                      \A i \in 1..(m - 1) : f[i] <= f[i + 1]}} : m \in 0..n}

\* Without the data file no endpoint reaches the table, which is then drawn
\* from the tables of at most one row.
Init ==
  /\ dataFile \in BOOLEAN
  /\ places \in (IF dataFile THEN Tables(MaxRows) ELSE Tables(1))
  /\ req = NoReq
  /\ resp = NoResp
  /\ prev = NoResp
  /\ load = NoLoad
  /\ store = "up"
  /\ stmt = NoStmt

\* The endpoint answers request r.
Call(r) ==
  /\ req' = r
  /\ resp' \in Responses(r)
  /\ prev' = NoResp
  /\ UNCHANGED <<places, dataFile, load, store, stmt>>

\* GET /api/places
ApiPlaces ==
  /\ resp = NoResp
  /\ \E cat \in {<<>>, <<"park">>}, cty \in {None, "a"}, bb \in BboxInputs,
        dia \in Flags, park \in Flags, inc \in BOOLEAN :
       Call(Request("places", cat, cty, bb, dia, park, inc))

\* GET /api/cities
ApiCities ==
  /\ resp = NoResp
  /\ \E cat \in Categories, inc \in BOOLEAN :
       Call(Request("cities", cat, None, NoBbox, None, None, inc))

\* GET /api/districts
ApiDistricts ==
  /\ resp = NoResp
  /\ \E cty \in Cities, cat \in Categories, inc \in BOOLEAN :
       Call(Request("districts", cat, cty, NoBbox, None, None, inc))

\* The client makes the same aggregate call again, on unchanged data.
Repeat ==
  /\ resp # NoResp
  /\ req.op \in {"cities", "districts"}
  /\ resp' \in Responses(req)
  /\ prev' = resp
  /\ UNCHANGED <<places, dataFile, req, load, store, stmt>>

\* The client takes the response.
Deliver ==
  /\ resp # NoResp
  /\ req' = NoReq
  /\ resp' = NoResp
  /\ prev' = NoResp
  /\ UNCHANGED <<places, dataFile, load, store, stmt>>

Next == ApiPlaces \/ ApiCities \/ ApiDistricts \/ Repeat \/ Deliver

Spec == Init /\ [][Next]_vars

\* The same endpoints over a store that may be down or fail at a statement;
\* a store that is not up is drawn with tables of at most one row.
InitStore ==
  /\ dataFile \in BOOLEAN
  /\ store \in StoreModes
  /\ places \in (IF dataFile /\ store = "up" THEN Tables(MaxRows) ELSE Tables(1))
  /\ req = NoReq
  /\ resp = NoResp
  /\ prev = NoResp
  /\ load = NoLoad
  /\ stmt = NoStmt

SpecStore == InitStore /\ [][Next]_vars

-----------------------------------------------------------------------------
(* The statement assembly on its own: every combination of criteria is     *)
(* given to the operation that builds its statement.                       *)

\* The statement an operation hands to cur.execute for request r.
Statement(r) ==
  CASE r.op = "places" ->
         LET q == BuildPlacesQuery(r) IN [exc |-> q.exc, sql |-> q.sql, params |-> q.params]
    [] r.op = "cities" -> CitiesStatement(r)
    [] r.op = "districts" -> DistrictsStatement(r)

InitQuery ==
  /\ places = <<>>
  /\ dataFile = TRUE
  /\ req = NoReq
  /\ resp = NoResp
  /\ prev = NoResp
  /\ load = NoLoad
  /\ store = "up"
  /\ stmt = NoStmt

\* The statement for request r is built.
Build(r) ==
  /\ req' = r
  /\ stmt' = Statement(r)
  /\ UNCHANGED <<places, dataFile, resp, prev, load, store>>

\* build_places_query
BuildPlaces ==
  /\ stmt = NoStmt
  /\ \E cat \in Categories, cty \in Cities, bb \in BboxInputs,
        dia \in Flags, park \in Flags, inc \in BOOLEAN :
       Build(Request("places", cat, cty, bb, dia, park, inc))

\* the statement assembly of get_cities
BuildCities ==
  /\ stmt = NoStmt
  /\ \E cat \in Categories, inc \in BOOLEAN :
       Build(Request("cities", cat, None, NoBbox, None, None, inc))

\* the statement assembly of get_districts
BuildDistricts ==
  /\ stmt = NoStmt
  /\ \E cty \in Cities, cat \in Categories, inc \in BOOLEAN :
       Build(Request("districts", cat, cty, NoBbox, None, None, inc))

\* The statement has been executed or the exception raised.
Discard ==
  /\ stmt # NoStmt
  /\ req' = NoReq
  /\ stmt' = NoStmt
  /\ UNCHANGED <<places, dataFile, resp, prev, load, store>>

NextQuery == BuildPlaces \/ BuildCities \/ BuildDistricts \/ Discard

SpecQuery == InitQuery /\ [][NextQuery]_vars

-----------------------------------------------------------------------------
(* The loader (load_to_postgis.py).  A JSON value of the source file is    *)
(* its type and its text; a sub-object (location, properties) carries the  *)
(* keys the loader and the service read, JNull for an absent key.          *)

J(t, v) == [t |-> t, v |-> v]
JNull == J("null", "")
JStr(s) == J("str", s)
JNum(s) == J("num", s)

\* A dict with the keys lat, lng and data_status.
JObj(lat, lng, ds) ==
  [t |-> "obj", v |-> "", lat |-> lat, lng |-> lng, data_status |-> ds]

\* A value that is not a dict, where a dict is expected.
JScalar(j) ==
  [t |-> j.t, v |-> j.v, lat |-> JNull, lng |-> JNull, data_status |-> JNull]

\* bool(value)
PyTruthy(j) ==
  CASE j.t = "null" -> FALSE
    [] j.t = "str" -> j.v # ""
    [] j.t = "num" -> j.v # "0"
    [] OTHER -> TRUE

\* str.strip() on the texts of the model.
Strip(s) ==
  CASE s = " 1 " -> "1"
    [] s = "  " -> ""
    [] OTHER -> s

\* coerce_float
CoerceFloat(j) ==
  IF j.t = "null" THEN CastNull
  ELSE IF j.t = "num" THEN CastVal(IntOfText(j.v))
  ELSE IF j.t = "str"
  THEN LET v == Strip(j.v) IN
       IF v = "" THEN CastNull
       ELSE IF v \in IntTexts THEN CastVal(IntOfText(v))
       ELSE CastNull
  ELSE CastNull

\* value.get(key) on `sub or {}`: raises AttributeError when sub is truthy
\* and has no get method.
GetRaises(sub) == sub.t # "obj" /\ PyTruthy(sub)

\* extract_lat_lng
ExtractLatLng(place) ==
  LET loc == place.location
      lat == IF loc.t = "obj" THEN CoerceFloat(loc.lat) ELSE CastNull
      lng == IF loc.t = "obj" THEN CoerceFloat(loc.lng) ELSE CastNull
      props == place.properties
      lat2 == IF props.t = "obj" THEN CoerceFloat(props.lat) ELSE CastNull
      lng2 == IF props.t = "obj" THEN CoerceFloat(props.lng) ELSE CastNull
  IN IF GetRaises(loc) THEN [exc |-> "AttributeError", lat |-> CastNull, lng |-> CastNull]
     ELSE IF lat.k = "null" \/ lng.k = "null"
     THEN IF GetRaises(props)
          THEN [exc |-> "AttributeError", lat |-> CastNull, lng |-> CastNull]
          ELSE [exc |-> "none",
                lat |-> IF lat.k # "null" THEN lat ELSE lat2,
                lng |-> IF lng.k # "null" THEN lng ELSE lng2]
     ELSE [exc |-> "none", lat |-> lat, lng |-> lng]

\* The ids of the source file; the table is keyed by the position of the id.
Ids == <<"p1", "p2">>
IdKey(t) == CHOOSE k \in 1..Len(Ids) : Ids[k] = t

\* A row as the loader writes it: properties is sent as a JSON object, raw
\* is its "_raw" member.
LoadedRow(name, address, cat, cty, x, y, ds, raw) ==
  [name |-> name, address |-> address, category |-> cat, city |-> cty,
   lng |-> x, lat |-> y, ptype |-> "dict",
   p |-> [NoProps EXCEPT !.data_status = ds], raw |-> raw]

\* The text ->> yields for a JSON value.
JsonText(j) == IF j.t = "null" THEN NULL ELSE j.v

\* A string field is missing, empty or not a string.
BadText(j) == ~PyTruthy(j) \/ j.t # "str"

\* normalize_place: the row to write (ok), None (~ok), or an exception.
NormalizePlace(place) ==
  LET ll == ExtractLatLng(place)
      props == place.properties
      none == [exc |-> "none", ok |-> FALSE, id |-> 0, row |-> <<>>]
  IN IF BadText(place.id) \/ BadText(place.name) \/ BadText(place.category)
        \/ BadText(place.city)
     THEN none
     ELSE IF ll.exc # "none" THEN [none EXCEPT !.exc = ll.exc]
     ELSE IF ll.lat.k = "null" \/ ll.lng.k = "null" THEN none
     ELSE [exc |-> "none", ok |-> TRUE, id |-> IdKey(place.id.v),
           row |-> LoadedRow(place.name.v, JsonText(place.address),
                             place.category.v, place.city.v, ll.lng.v, ll.lat.v,
                             IF props.t = "obj" THEN JsonText(props.data_status)
                             ELSE NULL,
                             IF props.t \in {"obj", "null"} THEN NULL ELSE props.v)]

\* UPSERT_SQL for one row.
Upsert(table, k, row) ==
  [i \in (DOMAIN table) \cup {k} |-> IF i = k THEN row ELSE table[i]]

\* run_import_psycopg3 / run_import_psycopg2: the rows in order, each batch
\* committed; nothing is written on a dry run.
RECURSIVE RunImport(_, _, _, _)
RunImport(table, rows, i, dry) ==
  IF dry \/ i > Len(rows) THEN table
  ELSE RunImport(Upsert(table, rows[i].id, rows[i].row), rows, i + 1, dry)

\* The normalisation loop of main: the rows to write, or the exception that
\* leaves the loop.
RECURSIVE NormalizeAll(_, _, _)
NormalizeAll(raw, i, ok) ==
  IF i > Len(raw) THEN [exc |-> "none", ok |-> ok]
  ELSE IF raw[i].t # "obj" THEN NormalizeAll(raw, i + 1, ok)
  ELSE LET n == NormalizePlace(raw[i]) IN
       IF n.exc # "none" THEN [exc |-> n.exc, ok |-> <<>>]
       ELSE IF ~n.ok THEN NormalizeAll(raw, i + 1, ok)
       ELSE NormalizeAll(raw, i + 1, Append(ok, n))

\* main, on the parsed source records raw.
Main(table, raw, dry) ==
  LET n == NormalizeAll(raw, 1, <<>>)
  IN IF n.exc # "none" THEN [exc |-> n.exc, table |-> table]
     ELSE [exc |-> "none", table |-> RunImport(table, n.ok, 1, dry)]

\* A source record.
Source(id, name, cat, cty, address, loc, props) ==
  [t |-> "obj", id |-> id, name |-> name, category |-> cat, city |-> cty,
   address |-> address, location |-> loc, properties |-> props]

NoSub == JScalar(JNull)
Here == JObj(JNum("1"), JNum("1"), JNull)

\* The source records of the model.
Sources ==
  << Source(JStr("p1"), JStr("n1"), JStr("park"), JStr("a"), JStr("x"), Here, NoSub),
     Source(JStr("p1"), JStr("n2"), JStr("toilet"), JStr("b"), JNum("7"),
            JObj(JStr("2"), JStr(" 1 "), JNull), JObj(JNull, JNull, JStr("outdated"))),
     Source(JStr("p1"), JStr("n1"), JStr("park"), JStr("a"), JNull, Here,
            JScalar(JStr("raw"))),
     Source(JStr("p2"), JStr("n1"), JStr("park"), JStr("a"), JNull, NoSub,
            JObj(JNum("3"), JNum("0"), JNull)),
     Source(JStr("p2"), JStr("n2"), JStr("park"), JStr("a"), JNull,
            JObj(JNum("1"), JNull, JNull), JObj(JNum("3"), JNum("2"), JNull)),
     Source(JNull, JStr("n1"), JStr("park"), JStr("a"), JNull, Here, NoSub),
     Source(JStr("p1"), JStr(""), JStr("park"), JStr("a"), JNull, Here, NoSub),
     Source(JStr("p1"), JStr("n1"), JNum("7"), JStr("a"), JNull, Here, NoSub),
     Source(JStr("p2"), JStr("n1"), JStr("park"), JNull, JNull, Here, NoSub),
     Source(JStr("p2"), JStr("n1"), JStr("park"), JStr("a"), JNull, NoSub, NoSub),
     Source(JStr("p1"), JStr("n1"), JStr("park"), JStr("a"), JNull,
            JObj(JStr("abc"), JNum("1"), JNull), JObj(JStr("  "), JNull, JNull)),
     Source(JStr("p1"), JStr("n1"), JStr("park"), JStr("a"), JNull,
            JScalar(JStr("1,2")), NoSub),
     Source(JStr("p2"), JStr("n1"), JStr("park"), JStr("a"), JNull, NoSub,
            JScalar(JStr("raw"))),
     [Source(JNull, JNull, JNull, JNull, JNull, NoSub, NoSub) EXCEPT !.t = "str"] >>

\* The source files: at most MaxBatch records.
Batches == UNION {[1..m -> Range(Sources)] : m \in 0..MaxBatch}

InitLoad ==
  /\ places = <<>>
  /\ dataFile = TRUE
  /\ req = NoReq
  /\ resp = NoResp
  /\ prev = NoResp
  /\ load = NoLoad
  /\ store = "up"
  /\ stmt = NoStmt

\* One run of the loader on a source file.
RunLoader ==
  /\ ~load.ran
  /\ \E raw \in Batches, dry \in BOOLEAN :
       LET out == Main(places, raw, dry) IN
       /\ places' = out.table
       /\ load' = [ran |-> TRUE, raw |-> raw, dry |-> dry, exc |-> out.exc,
                   before |-> places]
  /\ UNCHANGED <<dataFile, req, resp, prev, store, stmt>>

\* The loader process has exited.
ExitLoader ==
  /\ load.ran
  /\ load' = NoLoad
  /\ UNCHANGED <<places, dataFile, req, resp, prev, store, stmt>>

NextLoad == RunLoader \/ ExitLoader

SpecLoad == InitLoad /\ [][NextLoad]_vars

-----------------------------------------------------------------------------
(* Vocabulary of the properties.                                           *)

\* The string is four comma-separated numeric tokens.
FourNumeric(b) ==
  LET parts == Split(b) IN Len(parts) = 4 /\ \A i \in 1..4 : IsFloat(parts[i])

\* Condition kind holds on row i of the table for the current request.
Holds(kind, i) ==
  \E ord \in Perms3 :
    CondValue(kind, places[i], req, BuildPlacesQuery(req).box, ord) = "T"

\* Row i passes every condition of the current list-places request except
\* those of the kinds in skip.
PassesExcept(skip, i) ==
  LET cs == BuildPlacesQuery(req).conds
  IN \A k \in 1..Len(cs) : cs[k] \notin skip => Holds(cs[k], i)

Outdated(i) == places[i].p.data_status = "outdated"

\* Row i passes the category / freshness criteria of the current request.
Matching(i) ==
  /\ (~req.include_outdated => ~Outdated(i))
  /\ (Len(req.category) > 0 => places[i].category \in Range(req.category))

\* One of the three representations indicates parking.
IndicatesParking(i) ==
  LET pr == places[i].p IN
  \/ pr.has_parking = "true"
  \/ pr.parking = "true"
  \/ (pr.parking_count \in IntTexts /\ IntOfText(pr.parking_count) > 0)

\* d(row): the diaper table count, 0 when absent or not a number.
DiaperCount(i) ==
  LET t == places[i].p.diaper_table_count
  IN IF t \in IntTexts THEN IntOfText(t) ELSE 0

RECURSIVE SumCounts(_, _)
SumCounts(es, k) == IF k > Len(es) THEN 0 ELSE es[k].count + SumCounts(es, k + 1)

PlacesOk == req.op = "places" /\ resp.status = 200
CitiesOk == req.op = "cities" /\ resp.status = 200
DistrictsOk == req.op = "districts" /\ resp.status = 200

-----------------------------------------------------------------------------
(* Properties.                                                             *)

\* C1: a list-places call whose bbox string is given and is not four
\* comma-separated numeric tokens fails with the validation error that
\* carries the raw bbox, returns nothing and runs no statement.
C1_MalformedBboxFails ==
  (req.op = "places" /\ resp.called /\ req.bbox # NoBbox /\ ~FourNumeric(req.bbox))
    => /\ resp.exc = "ValueError"
       /\ resp.status = 400 /\ resp.error = "bad_bbox"
       /\ resp.carried = req.bbox
       /\ resp.items = {} /\ resp.queries = 0

\* C2: a successful list-places call with the parking flag returns exactly
\* the rows passing the other criteria that indicate parking (flag "1"),
\* respectively exactly those that do not (flag "0").  Stated for tables
\* whose blobs are all JSON objects.
C2_ParkingFlagPartition ==
  (/\ PlacesOk /\ req.has_parking \in {"0", "1"}
   /\ \A i \in RowIds : places[i].ptype = "dict")
    => resp.items = {i \in RowIds : /\ PassesExcept({"parking0", "parking1"}, i)
                                    /\ (IndicatesParking(i) <=> req.has_parking = "1")}

\* C3: a list-places call with the diaper flag succeeds and returns exactly
\* the rows passing the other criteria with d(row) > 0 (flag "1"),
\* respectively d(row) = 0 (flag "0").  Stated for calls that no other
\* criterion and no unreadable blob can fail.
C3_DiaperFlagComplement ==
  (/\ req.op = "places" /\ resp.called
   /\ req.has_diaper_table \in {"0", "1"}
   /\ req.has_parking = None
   /\ (TruthyBbox(req.bbox) => FourNumeric(req.bbox))
   /\ \A i \in RowIds : ~NormalizeFails(places[i]))
    => /\ resp.status = 200
       /\ resp.items = {i \in RowIds :
                          /\ PassesExcept({"diaper0", "diaper1"}, i)
                          /\ (req.has_diaper_table = "1" => DiaperCount(i) > 0)
                          /\ (req.has_diaper_table = "0" => DiaperCount(i) = 0)}

\* Counts and presence of the aggregates of a successful list-cities call:
\* one aggregate per city code with a matching row, in collation order, its
\* count the number of matching rows.
CityCountsRight ==
  LET M(c) == {i \in RowIds : places[i].city = c /\ Matching(i)}
      codes == SelectSeq(CityCodes, LAMBDA c : M(c) # {})
  IN /\ Len(resp.cities) = Len(codes)
     /\ \A k \in 1..Len(codes) :
          /\ resp.cities[k].code = codes[k]
          /\ resp.cities[k].count = Cardinality(M(codes[k]))

\* Counts and presence of the aggregates of a successful list-districts
\* call: one per non-empty district value among the matching rows of the
\* city, in collation order, its count the number of those rows.
DistrictCountsRight ==
  LET M(d) == {i \in RowIds : /\ places[i].city = req.city /\ Matching(i)
                              /\ places[i].p.district = d}
      names == SelectSeq(DistrictNames, LAMBDA d : d # "" /\ M(d) # {})
  IN /\ Len(resp.districts) = Len(names)
     /\ \A k \in 1..Len(names) :
          /\ resp.districts[k].name = names[k]
          /\ resp.districts[k].count = Cardinality(M(names[k]))

\* C4 (amended): in every successful response, with include_outdated false
\* a row whose data_status is "outdated" is no returned place, is counted in
\* no city or district count and brings no aggregate into being, and every
\* other row is returned / counted exactly as without the freshness
\* condition; with include_outdated true the outdated rows are returned and
\* counted like the others.  (The display name of a city is not covered.)
C4_FreshnessFilter ==
  /\ PlacesOk =>
       resp.items = {i \in RowIds : /\ (~req.include_outdated => ~Outdated(i))
                                    /\ PassesExcept({"fresh"}, i)}
  /\ CitiesOk => CityCountsRight
  /\ DistrictsOk => DistrictCountsRight

\* C4 as stated: with include_outdated false an outdated row contributes
\* to no returned item, the display name of a city aggregate included.
C4_OutdatedContributesNothing ==
  /\ C4_FreshnessFilter
  /\ (CitiesOk /\ ~req.include_outdated) =>
       \A k \in 1..Len(resp.cities) :
         \/ resp.cities[k].name = resp.cities[k].code
         \/ \E i \in RowIds : /\ ~Outdated(i)
                              /\ places[i].city = resp.cities[k].code
                              /\ places[i].p.city_name = resp.cities[k].name

\* C4 witness: a successful default list-cities call over a table holding an
\* outdated row beside a counted one of the same city.
C4_Witness ==
  /\ CitiesOk /\ ~req.include_outdated
  /\ \E i, j \in RowIds : /\ Outdated(i) /\ ~Outdated(j) /\ Matching(j)
                          /\ places[i].city = places[j].city

\* C5: list-districts with city empty or absent returns no district list and
\* runs no statement; the service raises the validation error, which the
\* endpoint answers with 400 invalid_parameter, and a request without the
\* parameter is refused (422) before the endpoint runs.
C5_DistrictsNeedCity ==
  (req.op = "districts" /\ req.city \in {None, ""})
    => /\ resp.status # 200 /\ resp.districts = <<>> /\ resp.queries = 0
       /\ (resp.called => /\ resp.exc = "ValueError"
                          /\ resp.status = 400 /\ resp.error = "invalid_parameter")
       /\ (req.city = None => resp.status = 422)
       /\ \A cty \in {None, ""} :
            LET out == GetDistricts([req EXCEPT !.city = cty])
            IN out.exc = "ValueError" /\ out.queries = 0 /\ out.districts = <<>>

\* C5 witness: list-districts with city "" answered 400 over a non-empty table.
C5_Witness ==
  /\ req.op = "districts" /\ req.city = "" /\ resp.status = 400
  /\ Len(places) > 0

\* C6: a blob that fails to parse in list-places is answered 500 bad_json.
C6_BadBlobIsServerFault ==
  (req.op = "places" /\ resp.exc = "JSONDecodeError")
    => resp.status = 500 /\ resp.error = "bad_json"

\* C7: with the data file absent every endpoint that runs answers
\* 404 missing_data and executes no statement.
C7_MissingDataIs404 ==
  (resp # NoResp /\ ~dataFile /\ resp.status # 422)
    => resp.status = 404 /\ resp.error = "missing_data" /\ resp.queries = 0

\* The non-null city_name values carried by the rows of city code c.
CityNames(c) ==
  {places[i].p.city_name : i \in {j \in RowIds : /\ places[j].city = c
                                                /\ places[j].p.city_name # NULL}}

\* C8 (amended): a successful list-cities call returns one aggregate per
\* distinct city code among the matching rows, its count the number of
\* matching rows of that code, its name either a non-empty city_name of a
\* row of that code (matching or not) or the code; the code when no row of
\* that code carries a non-empty city_name, and a carried name when every
\* non-null city_name of that code is non-empty and there is one.
C8_CityAggregates ==
  CitiesOk =>
    /\ CityCountsRight
    /\ \A k \in 1..Len(resp.cities) :
         LET e == resp.cities[k]
             names == CityNames(e.code)
         IN /\ e.name \in (names \ {""}) \cup {e.code}
            /\ (names \ {""} = {} => e.name = e.code)
            /\ (names # {} /\ "" \notin names => e.name \in names)

\* C8 as stated: the name is a non-null city_name of a row of that code
\* whenever such a row exists, and the code otherwise.
C8_CityNameNonNull ==
  CitiesOk =>
    /\ CityCountsRight
    /\ \A k \in 1..Len(resp.cities) :
         LET e == resp.cities[k]
             names == CityNames(e.code)
         IN IF names # {} THEN e.name \in names ELSE e.name = e.code

\* C8 witness: an aggregate named after a row that does not pass the
\* criteria, beside an aggregate that falls back to its code.
C8_Witness ==
  /\ CitiesOk
  /\ \E k \in 1..Len(resp.cities) :
       /\ resp.cities[k].name # resp.cities[k].code
       /\ \A i \in RowIds : places[i].p.city_name = resp.cities[k].name => ~Matching(i)

\* C9: a repeated list-cities / list-districts call with the same criteria
\* on unchanged data returns the same aggregates in the same order.
C9_AggregatesDeterministic ==
  (prev # NoResp /\ req.op \in {"cities", "districts"}) => resp = prev

\* C10 (amended): a successful list-districts(c) call has one entry per
\* non-empty district value among the matching rows of c and counts in it
\* the matching rows with that value, so that rows without a district are in
\* no entry and the counts sum to the number of matching rows of c with a
\* non-empty district value; the count of c in list-cities is the number of
\* all matching rows of c.
C10_DistrictBreakdown ==
  /\ DistrictsOk =>
       /\ DistrictCountsRight
       /\ SumCounts(resp.districts, 1) =
            Cardinality({i \in RowIds : /\ places[i].city = req.city /\ Matching(i)
                                        /\ places[i].p.district \notin {NULL, ""}})
  /\ CitiesOk =>
       \A k \in 1..Len(resp.cities) :
         resp.cities[k].count =
           Cardinality({i \in RowIds : /\ places[i].city = resp.cities[k].code
                                       /\ Matching(i)})

\* C10 as stated: the district counts sum to the number of matching rows
\* of c that have a district value.
C10_DistrictSum ==
  DistrictsOk =>
    SumCounts(resp.districts, 1) =
      Cardinality({i \in RowIds : /\ places[i].city = req.city /\ Matching(i)
                                  /\ places[i].p.district # NULL})

\* C10 witness: a district breakdown of a city one of whose matching rows
\* has no district.
C10_Witness ==
  /\ DistrictsOk /\ Len(resp.districts) > 0
  /\ \E i \in RowIds : /\ places[i].city = req.city /\ Matching(i)
                       /\ places[i].p.district = NULL

\* C11: a successful list-places call with a well-formed box whose minima do
\* not exceed its maxima returns exactly the rows passing the other criteria
\* whose point lies in the closed rectangle: minLng <= lng <= maxLng and
\* minLat <= lat <= maxLat, points on an edge or corner included.
C11_BboxClosedContainment ==
  (PlacesOk /\ TruthyBbox(req.bbox)) =>
    LET box == BuildPlacesQuery(req).box IN
    (box[1] <= box[3] /\ box[2] <= box[4]) =>
      resp.items = {i \in RowIds :
                      /\ PassesExcept({"bbox"}, i)
                      /\ box[1] <= places[i].lng /\ places[i].lng <= box[3]
                      /\ box[2] <= places[i].lat /\ places[i].lat <= box[4]}

\* A JSON value that resolves to a number: a number, or a string that is a
\* number once stripped.
Numeric(j) == j.t = "num" \/ (j.t = "str" /\ Strip(j.v) \in IntTexts)
NumberOf(j) == IntOfText(IF j.t = "num" THEN j.v ELSE Strip(j.v))

\* The coordinate key of a source record resolves in its location object,
\* or else in its properties object.
InLocation(rec, key) == rec.location.t = "obj" /\ Numeric(rec.location[key])
InProperties(rec, key) == rec.properties.t = "obj" /\ Numeric(rec.properties[key])
HasCoord(rec, key) == InLocation(rec, key) \/ InProperties(rec, key)
Coord(rec, key) ==
  IF InLocation(rec, key) THEN NumberOf(rec.location[key])
  ELSE NumberOf(rec.properties[key])

\* A source record the loader is to keep.
ValidRecord(rec) ==
  /\ rec.t = "obj"
  /\ \A f \in {"id", "name", "category", "city"} : rec[f].t = "str" /\ rec[f].v # ""
  /\ HasCoord(rec, "lat") /\ HasCoord(rec, "lng")

\* Position of the last valid record of raw with the id of key k, 0 if none.
LastValid(raw, k) ==
  LET is == {i \in 1..Len(raw) : ValidRecord(raw[i]) /\ raw[i].id.v = Ids[k]}
  IN IF is = {} THEN 0 ELSE CHOOSE i \in is : \A j \in is : j <= i

\* The row that holds every field of a valid record.
RowOf(rec) ==
  [name |-> rec.name.v, address |-> JsonText(rec.address),
   category |-> rec.category.v, city |-> rec.city.v,
   lng |-> Coord(rec, "lng"), lat |-> Coord(rec, "lat"), ptype |-> "dict",
   p |-> [NoProps EXCEPT !.data_status =
            IF rec.properties.t = "obj" THEN JsonText(rec.properties.data_status)
            ELSE NULL],
   raw |-> IF rec.properties.t \in {"obj", "null"} THEN NULL ELSE rec.properties.v]

\* C12: a loader run that writes does not fail on any source record; after
\* it the row of an id is the last valid record of the file with that id in
\* every field, an id with no valid record in the file keeps the row it had
\* (or none), and every row has both coordinates.
C12_LoaderUpsert ==
  (load.ran /\ ~load.dry) =>
    /\ load.exc = "none"
    /\ \A k \in 1..Len(Ids) :
         LET i == LastValid(load.raw, k) IN
         IF i > 0 THEN k \in DOMAIN places /\ places[k] = RowOf(load.raw[i])
         ELSE /\ k \in DOMAIN places <=> k \in DOMAIN load.before
              /\ k \in DOMAIN places => places[k] = load.before[k]
    /\ \A k \in RowIds : places[k].lng \in Int /\ places[k].lat \in Int

\* The current call fails before any store interaction: a malformed bbox in
\* list-places, an empty city in list-districts.
FailsBeforeStore ==
  \/ req.op = "places" /\ TruthyBbox(req.bbox) /\ ~FourNumeric(req.bbox)
  \/ req.op = "districts" /\ req.city = ""

\* C13: a call opens at most one store connection and has closed every
\* connection it opened when it ends, however it ends; a call that fails
\* before any store interaction opens none.
C13_ConnectionScoped ==
  resp # NoResp =>
    /\ resp.acquired <= 1
    /\ resp.released = resp.acquired
    /\ FailsBeforeStore => resp.acquired = 0

\* C13 witness: a list-cities call whose first name lookup fails, its
\* connection opened and closed.
C13_Witness ==
  /\ req.op = "cities" /\ resp.exc = "OperationalError" /\ resp.queries = 2
  /\ resp.acquired = 1 /\ resp.released = 1

\* The slot of each placeholder of a statement text, in text order: the
\* criterion whose text the placeholder stands in, and its position there.
RECURSIVE Slots(_, _, _, _)
Slots(sql, i, ctx, k) ==
  IF i > Len(sql) THEN <<>>
  ELSE IF sql[i] = "%s" THEN <<[of |-> ctx, at |-> k]>> \o Slots(sql, i + 1, ctx, k + 1)
  ELSE IF sql[i] = "category IN (" THEN Slots(sql, i + 1, "category", 1)
  ELSE IF sql[i] = "city = " THEN Slots(sql, i + 1, "city", 1)
  ELSE IF sql[i] = "ST_Within(geom, ST_MakeEnvelope(" THEN Slots(sql, i + 1, "bbox", 1)
  ELSE IF sql[i] \in {",", ", "} THEN Slots(sql, i + 1, ctx, k)
  ELSE Slots(sql, i + 1, "none", 1)

\* The parameter of the request that belongs in a slot: the k-th category,
\* the city, the k-th number of the bbox string.
Belongs(param, slot, r) ==
  CASE slot.of = "category" ->
         slot.at <= Len(r.category) /\ param = [t |-> "str", s |-> r.category[slot.at], n |-> 0]
    [] slot.of = "city" ->
         slot.at = 1 /\ Truthy(r.city) /\ param = [t |-> "str", s |-> r.city, n |-> 0]
    [] slot.of = "bbox" ->
         /\ slot.at <= 4 /\ TruthyBbox(r.bbox) /\ FourNumeric(r.bbox)
         /\ param = [t |-> "float", s |-> "", n |-> Float(Split(r.bbox)[slot.at])]
    [] OTHER -> FALSE

\* The request with every category and city value replaced by another and
\* a well-formed bbox replaced by another well-formed one.
Blind(r) ==
  [r EXCEPT !.category = [i \in 1..Len(r.category) |-> "x"],
            !.city = IF Truthy(r.city) THEN "x" ELSE r.city,
            !.bbox = IF TruthyBbox(r.bbox) /\ FourNumeric(r.bbox)
                     THEN <<"1", ",", "1", ",", "3", ",", "3">> ELSE r.bbox]

\* C14: a built statement has as many placeholders as parameters, the i-th
\* parameter is the value of the criterion the i-th placeholder stands in
\* (categories in the given order, city, the bbox numbers in order; city
\* first in list-districts), and the text is the same whatever the values
\* of category, city and bbox are and has no piece that is a flag value.
C14_ParametersMatchPlaceholders ==
  stmt.exc = "none" =>
    LET slots == Slots(stmt.sql, 1, "none", 1) IN
    /\ Len(slots) = Len(stmt.params)
    /\ \A i \in 1..Len(slots) : Belongs(stmt.params[i], slots[i], req)
    /\ stmt.sql = Statement(Blind(req)).sql
    /\ \A i \in 1..Len(stmt.sql) : stmt.sql[i] \notin {"0", "1"}
    /\ req.op = "districts" => stmt.params[1] = [t |-> "str", s |-> req.city, n |-> 0]

\* C14 witness: a list-places statement with two categories, a city and a
\* box, seven parameters in all.
C14_Witness ==
  /\ req.op = "places" /\ stmt.exc = "none"
  /\ Len(req.category) = 2 /\ Truthy(req.city) /\ TruthyBbox(req.bbox)
  /\ Len(stmt.params) = 7

====
